---------------------------- MODULE Spec2Model ----------------------------
(***************************************************************************)
(* A model of fits2itk.convert (src/fits2itk.py), the conversion of a FITS *)
(* cube into an NRRD volume: intensity scaling, resolution of the velocity *)
(* scale, the axis permutation and the derivation of the space directions  *)
(* and space origin, with or without an alignment convention module.       *)
(*                                                                         *)
(* fits2itk.py is Python 2 source (line 162: "except getopt.GetoptError,   *)
(* err:" is a syntax error under Python 3), so "/" between two integers is *)
(* Python 2's floor division.  Floats are modelled as exact rationals      *)
(* <<numerator, denominator>> in lowest terms; rounding is not modelled.   *)
(***************************************************************************)
EXTENDS Integers, Sequences, FiniteSets, TLC

(***************************************************************************)
(* Bounds of the model.                                                    *)
(***************************************************************************)
\* Axis lengths of the small input cubes range over 1..MaxAxis.
MaxAxis == 2
\* The pixels compared along an axis: the first and the last MaxProbe of
\* them, which is all of them on an axis of at most 2 * MaxProbe pixels.
MaxProbe == 4

(***************************************************************************)
(* Float arithmetic, as exact rationals.                                   *)
(***************************************************************************)
Abs(x) == IF x < 0 THEN -x ELSE x

RECURSIVE GCD(_, _)
GCD(a, b) == IF b = 0 THEN a ELSE GCD(b, a % b)

Norm(n, m) ==
    LET g == GCD(Abs(n), Abs(m))
        s == IF m < 0 THEN -1 ELSE 1
    IN  <<(s * n) \div g, (s * m) \div g>>

Rat(n, m) == Norm(n, m)
OfInt(n)  == <<n, 1>>
Zero      == OfInt(0)
One       == OfInt(1)

RAdd(x, y) == Norm(x[1] * y[2] + y[1] * x[2], x[2] * y[2])
RNeg(x)    == <<-x[1], x[2]>>
RSub(x, y) == RAdd(x, RNeg(y))
RMul(x, y) == Norm(x[1] * y[1], x[2] * y[2])
\* the callers test y # Zero first (Python raises ZeroDivisionError there)
RDiv(x, y) == Norm(x[1] * y[2], x[2] * y[1])

\* A name that is not bound yet (no number has denominator 0).
Unbound == <<0, 0>>

(***************************************************************************)
(* Python values of the arguments: False, a string or a number.            *)
(***************************************************************************)
PyFalse   == [kind |-> "bool", s |-> "", n |-> Zero]
PyStr(x)  == [kind |-> "str", s |-> x, n |-> Zero]
PyNum(r)  == [kind |-> "num", s |-> "", n |-> r]

\* bool(v): False, 0 and "" are falsy
Truthy(v) ==
    CASE v.kind = "bool" -> FALSE
      [] v.kind = "str"  -> v.s # ""
      [] OTHER           -> v.n # Zero

\* v != 1 (a string is never equal to 1)
NotOne(v) == ~(v.kind = "num" /\ v.n = One)

(***************************************************************************)
(* numpy arrays: a shape and strides over a buffer.  np.swapaxes returns a *)
(* view of the same buffer.  Axes and offsets count from 0; the sequences  *)
(* shape and strides hold axis k at position k + 1.  The buffers of the    *)
(* input cubes are ramps, buf[i] = a * i + b, so that every pixel of a     *)
(* cube with a # 0 has its own value.                                      *)
(***************************************************************************)
RECURSIVE Prod(_)
Prod(s) == IF s = <<>> THEN 1 ELSE Head(s) * Prod(Tail(s))

\* C (row-major) strides of a freshly read array
CStrides(shape) ==
    [k \in 1..Len(shape) |-> Prod(SubSeq(shape, k + 1, Len(shape)))]

CArray(shape, buf) == [shape |-> shape, strides |-> CStrides(shape), buf |-> buf]

NoArray == [shape |-> <<>>, strides |-> <<>>, buf |-> [a |-> Zero, b |-> Zero]]

RECURSIVE Offset(_, _)
Offset(strides, idx) ==
    IF idx = <<>> THEN 0
    ELSE Head(idx) * Head(strides) + Offset(Tail(strides), Tail(idx))

BufAt(buf, i) == RAdd(RMul(buf.a, OfInt(i)), buf.b)

\* arr[idx]
At(arr, idx) == BufAt(arr.buf, Offset(arr.strides, idx))

\* np.swapaxes(arr, i, j)
swapaxes(arr, i, j) ==
    [arr EXCEPT !.shape   = [@ EXCEPT ![i + 1] = arr.shape[j + 1],
                                      ![j + 1] = arr.shape[i + 1]],
                !.strides = [@ EXCEPT ![i + 1] = arr.strides[j + 1],
                                      ![j + 1] = arr.strides[i + 1]]]

\* arr *= data_scale, in place: every element of the buffer is multiplied
IMul(arr, x) ==
    [arr EXCEPT !.buf = [a |-> RMul(@.a, x), b |-> RMul(@.b, x)]]

\* -1*np.array(shape)/2.
NegHalf(shape) == [k \in 1..Len(shape) |-> Rat(-shape[k], 2)]

(***************************************************************************)
(* The inputs: FITS files, convention modules and the arguments of a call. *)
(***************************************************************************)
\* A FITS header: a mapping from the keys it holds to their values.
NaxisCards(naxis) ==
    LET AxisOf(k) == CASE k = "NAXIS1" -> 1 [] k = "NAXIS2" -> 2 [] OTHER -> 3
    IN  [k \in { c \in {"NAXIS1", "NAXIS2", "NAXIS3"} : AxisOf(c) <= Len(naxis) }
           |-> OfInt(naxis[AxisOf(k)])]

WcsCards(crval, cdelt, crpix) ==
    ("CRVAL1" :> crval[1]) @@ ("CRVAL2" :> crval[2]) @@ ("CRVAL3" :> crval[3]) @@
    ("CDELT1" :> cdelt[1]) @@ ("CDELT2" :> cdelt[2]) @@ ("CDELT3" :> cdelt[3]) @@
    ("CRPIX1" :> crpix[1]) @@ ("CRPIX2" :> crpix[2]) @@ ("CRPIX3" :> crpix[3])

NoCards == [k \in {} |-> Zero]

\* The world coordinate systems of the input headers: none at all; a cube in
\* km/s whose reference pixel is the convention's reference point; a cube in
\* m/s off that point; and a header with a zero velocity increment.
WcsSet ==
    { NoCards,
      WcsCards(<<Rat(5224, 100), Rat(314, 10), Rat(78, 10)>>,
               <<Rat(-1, 100), Rat(1, 100), Rat(1, 10)>>,
               <<OfInt(50), OfInt(40), OfInt(25)>>),
      WcsCards(<<OfInt(52), OfInt(31), Zero>>,
               <<Rat(-1, 50), Rat(1, 50), OfInt(100)>>,
               <<One, One, One>>),
      WcsCards(<<OfInt(52), OfInt(31), Zero>>,
               <<Rat(-1, 50), Rat(1, 50), Zero>>,
               <<One, One, One>>) }

\* Axis lengths (NAXIS1, NAXIS2, NAXIS3) = (RA, Dec, Velocity) of the input
\* cubes: the small cubes, and the cube of the documented 100 x 80 x 50 case.
NaxisSet ==
    { <<r, dd, v>> : r \in 1..MaxAxis, dd \in 1..MaxAxis, v \in 1..MaxAxis }
      \cup { <<100, 80, 50>>, <<2, 3, 7>> }

\* The pixel ramps of the input cubes.
RampSet == { [a |-> One, b |-> Zero], [a |-> OfInt(2), b |-> OfInt(-3)] }

\* Reverse(s): numpy's shape is the FITS axis order reversed
Reverse(s) == [k \in 1..Len(s) |-> s[Len(s) + 1 - k]]

\* fits.getdata(infile, header=True) of a FITS file with these axes
FitsFile(naxis, wcs, ramp) ==
    [readable |-> TRUE,
     data     |-> CArray(Reverse(naxis), ramp),
     header   |-> NaxisCards(naxis) @@ wcs]

\* a path fits.getdata cannot read
NoFile == [readable |-> FALSE, data |-> NoArray, header |-> NoCards]

FileSet ==
    { FitsFile(n, w, b) : n \in NaxisSet, w \in WcsSet, b \in RampSet }
      \cup { FitsFile(<<3, 2>>, NoCards, [a |-> One, b |-> Zero]), NoFile }

\* The convention modules on the import path (src/ngc1333_conv.py).
c_dict ==
    ("ra-mm" :> OfInt(900)) @@ ("dec-mm" :> OfInt(900)) @@ ("vel-mm" :> Rat(1, 10)) @@
    ("ra0" :> Rat(5224, 100)) @@ ("dec0" :> Rat(3140, 100)) @@ ("vel0" :> OfInt(7800))

Modules == "ngc1333_conv" :> c_dict

\* np.cos(deg*np.pi/180.): cos(31.40 degrees) = 0.85355..., to four decimals
CosDeg(deg) ==
    CASE deg = Zero          -> One
      [] deg = OfInt(60)     -> Rat(1, 2)
      [] deg = Rat(314, 10)  -> Rat(8536, 10000)

DataScaleSet == { One, OfInt(2), Rat(1, 2), Zero }

VelScaleSet ==
    { PyFalse, PyStr("auto"), PyStr("bogus"), PyNum(Zero), PyNum(One),
      PyNum(OfInt(2)), PyNum(Rat(8, 5)), PyNum(Rat(1, 2)), PyNum(OfInt(1000)) }

UseConvSet == { PyFalse, PyStr("ngc1333_conv"), PyStr("no_such_conv") }

(***************************************************************************)
(* The state of one call convert(infile, outfile, data_scale, vel_scale,   *)
(* use_conv): its arguments, the file at infile, the position in the body, *)
(* the local names of the body, and what the call has done to the outside. *)
(***************************************************************************)
VARIABLES
    args,         \* the arguments of the call, as passed
    fitsfile,     \* what fits.getdata finds at infile
    pc,           \* the statement convert is about to execute
    err,          \* the exception that ended the call ("" for none)
    d, h,         \* the pixel array and the header
    vel_scale,    \* the parameter vel_scale, rebound at lines 87 and 91
    dra, dvel, ddec,
    racenter, deccenter, velcenter,
    spaceorigin,
    options,
    reads,        \* the calls of fits.getdata made
    stdout,       \* what print has written
    writes,       \* the calls of nrrd.write made: <<outfile, array, options>>
    trace         \* the statements completed so far, in order

locals == <<d, h, vel_scale, dra, dvel, ddec, racenter, deccenter, velcenter,
            spaceorigin, options>>
vars == <<args, fitsfile, pc, err, locals, reads, stdout, writes, trace>>

NoOptions ==
    [space |-> "", directions |-> <<>>, kinds |-> <<>>, origin |-> <<>>,
     encoding |-> ""]

\* Entry into convert: nothing is bound but the parameters.
Init ==
    /\ args \in [infile : {"in.fits"}, outfile : {"out.nrrd"},
                 data_scale : DataScaleSet, vel_scale : VelScaleSet,
                 use_conv : UseConvSet]
    /\ fitsfile \in FileSet
    /\ pc = "getdata"
    /\ err = ""
    /\ d = NoArray
    /\ h = NoCards
    /\ vel_scale = args.vel_scale
    /\ dra = Unbound /\ dvel = Unbound /\ ddec = Unbound
    /\ racenter = Unbound /\ deccenter = Unbound /\ velcenter = Unbound
    /\ spaceorigin = <<>>
    /\ options = NoOptions
    /\ reads = 0
    /\ stdout = <<>>
    /\ writes = <<>>
    /\ trace = <<>>

\* The statement after each statement of the body, in program order.
PcAfterSkipsGeometry(l) ==
    CASE l = "getdata"     -> "data_scale"
      [] l = "data_scale"  -> "vel_scale"
      [] l = "vel_scale"   -> "write"
      [] l = "centers"     -> "regrid"
      [] l = "regrid"      -> "swapaxes"
      [] l = "swapaxes"    -> "spaceorigin"
      [] l = "spaceorigin" -> "use_conv"
      [] l = "use_conv"    -> "options"
      [] l = "options"     -> "write"
      [] OTHER             -> "returned"
PcAfter(l) ==
    CASE l = "getdata"     -> "data_scale"
      [] l = "data_scale"  -> "vel_scale"
      [] l = "vel_scale"   -> "centers"
      [] l = "centers"     -> "regrid"
      [] l = "regrid"      -> "swapaxes"
      [] l = "swapaxes"    -> "spaceorigin"
      [] l = "spaceorigin" -> "use_conv"
      [] l = "use_conv"    -> "options"
      [] l = "options"     -> "write"
      [] OTHER             -> "returned"

\* The statement at pc completes and control moves on.
Goto == /\ pc' = PcAfter(pc)
        /\ trace' = Append(trace, pc)
        /\ err' = err

\* The statement at pc raises e: nothing in convert catches it, the call ends.
Raise(e) == /\ pc' = "raised"
            /\ trace' = trace
            /\ err' = e

Has(hh, k) == k \in DOMAIN hh
HasAll(hh, ks) == \A k \in ks : Has(hh, k)

(***************************************************************************)
(* The statements of convert.                                              *)
(***************************************************************************)
\* line 82: d,h = fits.getdata(infile,header=True)
GetData ==
    /\ pc = "getdata"
    /\ reads' = reads + 1
    /\ IF fitsfile.readable
       THEN /\ Goto
            /\ d' = fitsfile.data
            /\ h' = fitsfile.header
       ELSE /\ Raise("IOError")
            /\ UNCHANGED <<d, h>>
    /\ UNCHANGED <<args, fitsfile, vel_scale, dra, dvel, ddec, racenter,
                   deccenter, velcenter, spaceorigin, options, stdout, writes>>

\* lines 84-85: if data_scale: d *= data_scale
ScalePixels(arr, data_scale) ==
    IF data_scale # Zero THEN IMul(arr, data_scale) ELSE arr

ScaleData ==
    /\ pc = "data_scale"
    /\ d' = ScalePixels(d, args.data_scale)
    /\ Goto
    /\ UNCHANGED <<args, fitsfile, h, vel_scale, dra, dvel, ddec, racenter,
                   deccenter, velcenter, spaceorigin, options, reads, stdout,
                   writes>>

\* lines 89-91: min_spatial/vel_length, both integers (np.min of two Python
\* ints, and a Python int): Python 2's "/" floors the quotient
Min(a, b) == IF a <= b THEN a ELSE b

AutoScale(hh) ==
    LET min_spatial == Min(hh["NAXIS1"][1], hh["NAXIS2"][1])
        vel_length  == hh["NAXIS3"][1]
    IN  OfInt(min_spatial \div vel_length)

\* lines 86-91: the exception the resolution of vel_scale raises ("": none)
ResolveError(vs, hh) ==
    IF ~Truthy(vs) \/ vs # PyStr("auto") THEN ""
    ELSE IF ~HasAll(hh, {"NAXIS1", "NAXIS2", "NAXIS3"}) THEN "KeyError"
    ELSE IF hh["NAXIS3"] = Zero THEN "ZeroDivisionError"
    ELSE ""

\* lines 86-91: vel_scale after them; any other value is left as passed
ResolveFallback(vs, hh) ==
    IF ~Truthy(vs) THEN PyNum(One)
    ELSE IF vs = PyStr("auto") THEN PyNum(AutoScale(hh))
    ELSE IF vs.kind = "str" THEN PyNum(One)
    ELSE vs
Resolve(vs, hh) ==
    IF ~Truthy(vs) THEN PyNum(One)
    ELSE IF vs = PyStr("auto") THEN PyNum(AutoScale(hh))
    ELSE vs

ResolveScale ==
    /\ pc = "vel_scale"
    /\ IF ResolveError(vel_scale, h) # ""
       THEN /\ Raise(ResolveError(vel_scale, h))
            /\ UNCHANGED vel_scale
       ELSE /\ vel_scale' = Resolve(vel_scale, h)
            /\ Goto
    /\ UNCHANGED <<args, fitsfile, d, h, dra, dvel, ddec, racenter, deccenter,
                   velcenter, spaceorigin, options, reads, stdout, writes>>

\* lines 96-98: the centre of the cube, in pixels
RaCenter(hh)  == RDiv(hh["NAXIS1"], OfInt(2))
DecCenterUnsigned(hh) == RDiv(hh["NAXIS2"], OfInt(2))
DecCenter(hh) == RDiv(RMul(OfInt(-1), hh["NAXIS2"]), OfInt(2))
VelCenter(hh) == RDiv(RMul(OfInt(-1), hh["NAXIS3"]), OfInt(2))

\* lines 93-98
Centers ==
    /\ pc = "centers"
    /\ IF HasAll(h, {"NAXIS1", "NAXIS2", "NAXIS3"})
       THEN /\ dra' = One /\ dvel' = One /\ ddec' = One
            /\ racenter' = RaCenter(h)
            /\ deccenter' = DecCenter(h)
            /\ velcenter' = VelCenter(h)
            /\ Goto
       ELSE /\ Raise("KeyError")
            /\ UNCHANGED <<dra, dvel, ddec, racenter, deccenter, velcenter>>
    /\ UNCHANGED <<args, fitsfile, d, h, vel_scale, spaceorigin, options,
                   reads, stdout, writes>>

\* line 100: vel_scale != 1 and not use_conv
Regrids(vs, use_conv) == NotOne(vs) /\ ~Truthy(use_conv)

\* line 101: dvel/vel_scale
RegridDvel(dv, vs) == RDiv(dv, vs.n)

\* lines 100-101; only the spacing changes, the array is not resampled
Regrid ==
    /\ pc = "regrid"
    /\ IF ~Regrids(vel_scale, args.use_conv)
       THEN Goto /\ UNCHANGED dvel
       ELSE IF vel_scale.kind = "str"
       THEN Raise("TypeError") /\ UNCHANGED dvel
       ELSE IF vel_scale.n = Zero
       THEN Raise("ZeroDivisionError") /\ UNCHANGED dvel
       ELSE Goto /\ dvel' = RegridDvel(dvel, vel_scale)
    /\ UNCHANGED <<args, fitsfile, d, h, vel_scale, dra, ddec, racenter,
                   deccenter, velcenter, spaceorigin, options, reads, stdout,
                   writes>>

\* lines 107-108: numpy order (Velocity, Dec, RA) to (RA, Velocity, Dec)
ReorderSwapped(arr) == swapaxes(swapaxes(arr, 0, 2), 0, 1)
Reorder(arr) == swapaxes(swapaxes(arr, 0, 1), 0, 2)

SwapAxes ==
    /\ pc = "swapaxes"
    /\ IF Len(d.shape) >= 3
       THEN Goto /\ d' = Reorder(d)
       ELSE Raise("ValueError") /\ UNCHANGED d
    /\ UNCHANGED <<args, fitsfile, h, vel_scale, dra, dvel, ddec, racenter,
                   deccenter, velcenter, spaceorigin, options, reads, stdout,
                   writes>>

\* line 112: spaceorigin = -1*np.array(d.shape)/2.
SpaceOrigin ==
    /\ pc = "spaceorigin"
    /\ spaceorigin' = NegHalf(d.shape)
    /\ Goto
    /\ UNCHANGED <<args, fitsfile, d, h, vel_scale, dra, dvel, ddec, racenter,
                   deccenter, velcenter, options, reads, stdout, writes>>

(***************************************************************************)
(* Lines 114-127: the convention.  c is the c_dict of the imported module. *)
(***************************************************************************)
\* lines 118-120
ConvDra(hh, c)      == RMul(hh["CDELT1"], c["ra-mm"])
ConvDdec(hh, c)     == RMul(hh["CDELT2"], c["dec-mm"])
ConvDvel(hh, c, vs) == RMul(RMul(hh["CDELT3"], c["vel-mm"]), vs.n)

\* line 123
ConvVel0Unscaled(c, vs) == c["vel0"]
ConvVel0(c, vs) == RDiv(c["vel0"], vs.n)

\* lines 124-127
ConvRaCenter(hh, c) ==
    RAdd(RDiv(RMul(RSub(c["ra0"], hh["CRVAL1"]), CosDeg(c["dec0"])),
              hh["CDELT1"]),
         hh["CRPIX1"])
ConvDecCenter(hh, c) ==
    RMul(OfInt(-1),
         RAdd(RDiv(RSub(c["dec0"], hh["CRVAL2"]), hh["CDELT2"]), hh["CRPIX2"]))
ConvVelCenter(hh, vel0) ==
    RMul(OfInt(-1),
         RAdd(RDiv(RSub(vel0, hh["CRVAL3"]), hh["CDELT3"]), hh["CRPIX3"]))

\* The first exception lines 117-127 raise, in the order of the statements
\* ("": none).  The convention's values are floats, so every division is a
\* float division.
ConvError(name, hh, vs) ==
    IF name \notin DOMAIN Modules THEN "ImportError"                  \* 117
    ELSE IF ~HasAll(hh, {"CDELT1", "CDELT2", "CDELT3"}) THEN "KeyError" \* 118-120
    ELSE IF vs.kind = "str" THEN "TypeError"                          \* 120
    ELSE IF vs.n = Zero THEN "ZeroDivisionError"                      \* 123
    ELSE IF ~Has(hh, "CRVAL1") THEN "KeyError"                        \* 124
    ELSE IF hh["CDELT1"] = Zero THEN "ZeroDivisionError"              \* 125
    ELSE IF ~Has(hh, "CRPIX1") THEN "KeyError"                        \* 125
    ELSE IF ~Has(hh, "CRVAL2") THEN "KeyError"                        \* 126
    ELSE IF hh["CDELT2"] = Zero THEN "ZeroDivisionError"
    ELSE IF ~Has(hh, "CRPIX2") THEN "KeyError"
    ELSE IF ~Has(hh, "CRVAL3") THEN "KeyError"                        \* 127
    ELSE IF hh["CDELT3"] = Zero THEN "ZeroDivisionError"
    ELSE IF ~Has(hh, "CRPIX3") THEN "KeyError"
    ELSE ""

UseConv ==
    /\ pc = "use_conv"
    /\ IF ~Truthy(args.use_conv)
       THEN /\ Goto
            /\ UNCHANGED <<dra, dvel, ddec, racenter, deccenter, velcenter>>
       ELSE IF ConvError(args.use_conv.s, h, vel_scale) # ""
       THEN /\ Raise(ConvError(args.use_conv.s, h, vel_scale))
            /\ UNCHANGED <<dra, dvel, ddec, racenter, deccenter, velcenter>>
       ELSE LET c    == Modules[args.use_conv.s]
                vel0 == ConvVel0(c, vel_scale)
            IN  /\ dra'  = ConvDra(h, c)
                /\ ddec' = ConvDdec(h, c)
                /\ dvel' = ConvDvel(h, c, vel_scale)
                /\ racenter'  = ConvRaCenter(h, c)
                /\ deccenter' = ConvDecCenter(h, c)
                /\ velcenter' = ConvVelCenter(h, vel0)
                /\ Goto
    /\ UNCHANGED <<args, fitsfile, d, h, vel_scale, spaceorigin, options,
                   reads, stdout, writes>>

(***************************************************************************)
(* Lines 129-142: the options and the call of the writer.                  *)
(***************************************************************************)
\* line 131
SpaceDirectionsUnsigned(ra, vel, dec) ==
    << <<ra, Zero, Zero>>, <<Zero, vel, Zero>>, <<Zero, Zero, dec>> >>
SpaceDirections(ra, vel, dec) ==
    << <<RMul(OfInt(-1), ra), Zero, Zero>>,
       <<Zero, vel, Zero>>,
       <<Zero, Zero, dec>> >>

\* lines 133-135
SetOriginSourceOrder(so, rc, vc, dc, ra, vel, dec) ==
    [so EXCEPT ![1] = RMul(rc, ra), ![2] = RMul(dc, dec), ![3] = RMul(vc, vel)]
SetOrigin(so, rc, vc, dc, ra, vel, dec) ==
    [so EXCEPT ![1] = RMul(rc, ra), ![2] = RMul(vc, vel), ![3] = RMul(dc, dec)]

\* lines 129-141
Options ==
    /\ pc = "options"
    /\ IF Len(spaceorigin) >= 3
       THEN LET so == SetOrigin(spaceorigin, racenter, velcenter, deccenter,
                                dra, dvel, ddec)
                o  == [space      |-> "left-posterior-superior",
                       directions |-> SpaceDirections(dra, dvel, ddec),
                       kinds      |-> <<"domain", "domain", "domain">>,
                       origin     |-> so,
                       encoding   |-> "raw"]
            IN  /\ spaceorigin' = so
                /\ options' = o
                /\ stdout' = Append(stdout, o)
                /\ Goto
       ELSE /\ Raise("IndexError")
            /\ UNCHANGED <<spaceorigin, options, stdout>>
    /\ UNCHANGED <<args, fitsfile, d, h, vel_scale, dra, dvel, ddec, racenter,
                   deccenter, velcenter, reads, writes>>

\* line 142: nrrd.write(outfile,d,options=options)
Write ==
    /\ pc = "write"
    /\ writes' = Append(writes, [outfile |-> args.outfile, data |-> d,
                                 options |-> options])
    /\ Goto
    /\ UNCHANGED <<args, fitsfile, locals, reads, stdout>>

Next ==
    \/ GetData
    \/ ScaleData
    \/ ResolveScale
    \/ Centers
    \/ Regrid
    \/ SwapAxes
    \/ SpaceOrigin
    \/ UseConv
    \/ Options
    \/ Write

Spec == Init /\ [][Next]_vars

(***************************************************************************)
(* The properties.                                                         *)
(***************************************************************************)
Written  == writes # <<>>
NoConv   == ~Truthy(args.use_conv)
N1       == fitsfile.header["NAXIS1"][1]
N2       == fitsfile.header["NAXIS2"][1]
N3       == fitsfile.header["NAXIS3"][1]
Probe(n) == { i \in 0..(n - 1) : i < MaxProbe \/ i >= n - MaxProbe }
Did(l)   == \E i \in 1..Len(trace) : trace[i] = l
\* the intensity scaling of lines 84-85 applied to one input pixel
Intensity(x) == IF args.data_scale = Zero THEN x ELSE RMul(x, args.data_scale)
\* round(x) of a positive rational
Round(x) == (2 * x[1] + x[2]) \div (2 * x[2])

\* C1: the array handed to the writer has shape (R, V, D) for an input of
\* shape (V, D, R), and its element at (r, v, d) is the input's element at
\* (v, d, r) (carrying the intensity factor of lines 84-85, which is 1 by
\* default), whatever the pixel values are.
C1_ReorderedCube ==
    Written =>
        LET out == writes[1].data
            src == fitsfile.data
            V == src.shape[1]
            D == src.shape[2]
            R == src.shape[3]
        IN  /\ Len(src.shape) = 3
            /\ out.shape = <<R, V, D>>
            /\ \A r \in Probe(R), v \in Probe(V), dd \in Probe(D) :
                   At(out, <<r, v, dd>>) = Intensity(At(src, <<v, dd, r>>))

C1_Witness ==
    /\ Written
    /\ fitsfile.data.shape = <<7, 3, 2>>
    /\ writes[1].data.shape = <<2, 7, 3>>
    /\ args.data_scale = One
    /\ fitsfile.data.buf.a = One
    /\ At(writes[1].data, <<1, 6, 2>>) = At(fitsfile.data, <<6, 2, 1>>)
    /\ At(writes[1].data, <<1, 6, 2>>) # At(fitsfile.data, <<1, 6, 2>> )

\* C2: with vel_scale = "auto" the resolved velocity scale is the exact ratio
\* min(NAXIS1, NAXIS2) / NAXIS3 (1.6 for 100, 80, 50), not a truncated
\* quotient.
C2_AutoIsExactRatio ==
    (args.vel_scale = PyStr("auto") /\ Did("vel_scale")) =>
        vel_scale = PyNum(Rat(Min(N1, N2), N3))

\* C3: without a convention and with a velocity scale of 1 (passed, or taken
\* for an unset one), the writer is given the space directions
\* ((-1,0,0),(0,1,0),(0,0,1)) and the space origin
\* (NAXIS1/2, -NAXIS3/2, -NAXIS2/2); for 100, 80, 50 the origin is
\* (50, -25, -40) and the shape (100, 50, 80).
C3_UnitGeometry ==
    (Written /\ NoConv /\ vel_scale = PyNum(One)) =>
        LET w == writes[1]
        IN  /\ w.options.directions =
                   << <<OfInt(-1), Zero, Zero>>, <<Zero, One, Zero>>,
                      <<Zero, Zero, One>> >>
            /\ w.options.origin = <<Rat(N1, 2), Rat(-N3, 2), Rat(-N2, 2)>>
            /\ <<N1, N2, N3>> = <<100, 80, 50>> =>
                   /\ w.options.origin = <<OfInt(50), OfInt(-25), OfInt(-40)>>
                   /\ w.data.shape = <<100, 50, 80>>

C3_Witness ==
    /\ Written
    /\ NoConv
    /\ args.vel_scale = PyFalse
    /\ <<N1, N2, N3>> = <<100, 80, 50>>
    /\ writes[1].options.origin = <<OfInt(50), OfInt(-25), OfInt(-40)>>
    /\ writes[1].data.shape = <<100, 50, 80>>

\* The spacings (dra, dvel, ddec) the claims name, from the header, the
\* convention and the resolved velocity scale vs.
ClaimedDra == IF NoConv THEN One
              ELSE RMul(fitsfile.header["CDELT1"], c_dict["ra-mm"])
ClaimedDdec == IF NoConv THEN One
               ELSE RMul(fitsfile.header["CDELT2"], c_dict["dec-mm"])
ClaimedDvel == IF NoConv THEN RDiv(One, vel_scale.n)
               ELSE RMul(RMul(fitsfile.header["CDELT3"], c_dict["vel-mm"]),
                         vel_scale.n)

\* C4: in both modes the space directions given to the writer are
\* ((-dra,0,0),(0,dvel,0),(0,0,ddec)), with (dra, dvel, ddec) =
\* (1, 1/vel_scale, 1) without a convention and (CDELT1*ra_mm,
\* CDELT3*vel_mm*vel_scale, CDELT2*dec_mm) with one.
C4_SpaceDirections ==
    Written =>
        writes[1].options.directions =
            << <<RNeg(ClaimedDra), Zero, Zero>>,
               <<Zero, ClaimedDvel, Zero>>,
               <<Zero, Zero, ClaimedDdec>> >>

C4_Witness ==
    /\ Written
    /\ ~NoConv
    /\ vel_scale = PyNum(OfInt(1000))
    /\ fitsfile.header["CDELT1"] = Rat(-1, 100)
    /\ writes[1].options.directions =
           << <<OfInt(9), Zero, Zero>>, <<Zero, OfInt(10), Zero>>,
              <<Zero, Zero, OfInt(9)>> >>

\* C5: with a convention the space origin is
\* (racenter*dra, velcenter*dvel, deccenter*ddec), dra not negated, with
\* racenter = (ra0 - CRVAL1)*cos(dec0)/CDELT1 + CRPIX1,
\* deccenter = -((dec0 - CRVAL2)/CDELT2 + CRPIX2) and
\* velcenter = -((vel0/vel_scale - CRVAL3)/CDELT3 + CRPIX3); the lengths of
\* the array's axes do not enter it.
C5_ConventionOrigin ==
    (Written /\ ~NoConv) =>
        LET hh == fitsfile.header
            c  == c_dict
            rc == RAdd(RDiv(RMul(RSub(c["ra0"], hh["CRVAL1"]), CosDeg(c["dec0"])),
                            hh["CDELT1"]), hh["CRPIX1"])
            dc == RNeg(RAdd(RDiv(RSub(c["dec0"], hh["CRVAL2"]), hh["CDELT2"]),
                            hh["CRPIX2"]))
            vc == RNeg(RAdd(RDiv(RSub(RDiv(c["vel0"], vel_scale.n), hh["CRVAL3"]),
                                 hh["CDELT3"]), hh["CRPIX3"]))
        IN  writes[1].options.origin =
                <<RMul(rc, ClaimedDra), RMul(vc, ClaimedDvel), RMul(dc, ClaimedDdec)>>

C5_Witness ==
    /\ Written
    /\ ~NoConv
    /\ vel_scale = PyNum(OfInt(1000))
    /\ fitsfile.header["CRPIX3"] = OfInt(25)
    /\ writes[1].options.origin = <<OfInt(-450), OfInt(-250), OfInt(-360)>>

\* C6: without a convention and with a resolved velocity scale other than 1
\* the written array's velocity axis has round(NAXIS3 * vel_scale) pixels,
\* RA and Dec keeping theirs; otherwise all three lengths are the input's.
C6_ResampledLength ==
    Written =>
        writes[1].data.shape =
            IF NoConv /\ vel_scale # PyNum(One)
            THEN <<N1, Round(RMul(OfInt(N3), vel_scale.n)), N2>>
            ELSE <<N1, N3, N2>>

\* C7: every pixel given to the writer is the input pixel multiplied by
\* data_scale, for every data_scale.
C7_ScaledOnce ==
    Written =>
        LET out == writes[1].data
        IN  \A r \in Probe(out.shape[1]), v \in Probe(out.shape[2]),
               dd \in Probe(out.shape[3]) :
                At(out, <<r, v, dd>>) =
                    RMul(At(fitsfile.data, <<v, dd, r>>), args.data_scale)

\* a vel_scale that is neither falsy, nor "auto", nor a number
InvalidScale == args.vel_scale.kind = "str" /\ args.vel_scale.s \notin {"", "auto"}

C9_WriteLast ==
    /\ Len(writes) <= 1
    /\ Written =>
           /\ err = ""
           /\ trace \in { <<"getdata", "data_scale", "vel_scale", "centers",
                           "regrid", "swapaxes", "spaceorigin", "use_conv",
                           "options">>,
                         <<"getdata", "data_scale", "vel_scale", "centers",
                           "regrid", "swapaxes", "spaceorigin", "use_conv",
                           "options", "write">> }
           /\ writes[1].data = d
           /\ writes[1].options = options
    /\ (pc = "raised" \/ err # "") => writes = <<>>

C9_Witness ==
    /\ pc = "raised"
    /\ err = "ImportError"
    /\ Did("swapaxes")
    /\ writes = <<>>

\* C10: without a convention the written cube is centred on 0: on every
\* target axis k, origin[k] + length[k] * direction[k][k] / 2 = 0, for
\* every resolved velocity scale.
C10_Centred ==
    (Written /\ NoConv) =>
        LET w == writes[1]
        IN  \A k \in 1..3 :
                RAdd(w.options.origin[k],
                     RDiv(RMul(OfInt(w.data.shape[k]), w.options.directions[k][k]),
                          OfInt(2))) = Zero

C10_Witness ==
    /\ Written
    /\ NoConv
    /\ args.vel_scale = PyNum(Rat(8, 5))
    /\ <<N1, N2, N3>> = <<100, 80, 50>>
    /\ writes[1].options.origin = <<OfInt(50), Rat(-125, 8), OfInt(-40)>>
    /\ writes[1].options.directions[2][2] = Rat(5, 8)

====
